---- MODULE Spec2Model ----
(***************************************************************************)
(* Model of datacontracts: Contract.validate (contract.py) and             *)
(* ContractError (errors.py).  A schema is the ordered list of the Column  *)
(* attributes of a Contract subclass; a table is a pandas DataFrame seen   *)
(* through the three things validate reads: its column names, its index    *)
(* and the cells of each column.                                           *)
(***************************************************************************)
EXTENDS Integers, Sequences, FiniteSets, TLC

VARIABLES
    harness,   \* how validate is driven: "single", "sequential" or "concurrent"
    schema,    \* cls.__dict__ restricted to Column values, in declaration order
    pc,        \* per caller: position inside validate
    df,        \* per caller: the DataFrame passed to validate
    i,         \* per caller: position of the for loop in cls.columns().items()
    errors,    \* per caller: the local list `errors`
    result,    \* per caller: how the last call ended
    calls,     \* per caller: number of validate calls started
    history    \* log of finished calls: the table passed and how the call ended

vars == <<harness, schema, pc, df, i, errors, result, calls, history>>

-----------------------------------------------------------------------------
(* Bounds of the model *)

\* Longest generated table (number of rows).
MaxRows == 2

\* Calls one caller makes in the sequential harness.
MaxCalls == 3

Procs == {1, 2}

-----------------------------------------------------------------------------
(* Python values: cells, bounds and allowed entries *)

IntV(n) == [t |-> "int", i |-> n, s |-> ""]

StrV(x) == [t |-> "str", i |-> 0, s |-> x]

NoneV == [t |-> "none", i |-> 0, s |-> ""]

\* str(value) as an f-string renders it: digits for an int, the text itself
\* (no quotes) for a str.
Format(v) ==
    IF v.t = "int" THEN ToString(v.i)
    ELSE IF v.t = "str" THEN v.s
    ELSE "None"

\* isinstance(x, col.dtype) for dtype int or str.
IsInstance(v, dtype) == v.t = dtype

\* x < m and x > m are defined between two ints (and between two strs); any
\* other pairing raises TypeError.  The bounds of the schemas below are ints.
Orderable(v, m) == v.t = m.t

Less(v, m) == v.i < m.i

Greater(v, m) == v.i > m.i

-----------------------------------------------------------------------------
(* Column rules and schemas *)

NoAllowed == [given |-> FALSE, vals |-> {}]

Allowed(S) == [given |-> TRUE, vals |-> S]

\* Column(dtype, min=None, max=None, allowed=None)
Column(dtype, min, max, allowed) ==
    [dtype |-> dtype, min |-> min, max |-> max, allowed |-> allowed]

Names == {"age", "status"}

ColumnRules ==
    { Column("int", NoneV, NoneV, NoAllowed),
      Column("int", IntV(0), NoneV, NoAllowed),
      Column("int", NoneV, IntV(0), NoAllowed),
      Column("int", NoneV, NoneV, Allowed({})),
      Column("int", IntV(0), IntV(0), Allowed({IntV(25), StrV("x")})),
      Column("str", NoneV, NoneV, NoAllowed),
      Column("str", IntV(0), NoneV, NoAllowed),
      Column("str", NoneV, NoneV, Allowed({IntV(25), StrV("x")})) }

\* class Example(Contract): age = Column(int, min=0, max=120)
ExampleSchema == << [name |-> "age", col |-> Column("int", IntV(0), IntV(120), NoAllowed)] >>

\* Contract.columns(): the Column attributes of the class, in the order of
\* the class body; attribute names are unique.
Schemas ==
    { <<>>, ExampleSchema }
    \cup { << [name |-> n, col |-> c] >> : n \in Names, c \in ColumnRules }
    \cup { << [name |-> n1, col |-> c1], [name |-> n2, col |-> c2] >> :
             <<n1, n2>> \in { <<"age", "status">>, <<"status", "age">> },
             <<c1, c2>> \in ColumnRules \X ColumnRules }

-----------------------------------------------------------------------------
(* Tables *)

Cells == { IntV(-5), IntV(25), StrV("x") }

RECURSIVE SeqsOf(_, _)
SeqsOf(S, n) ==
    IF n = 0 THEN { <<>> }
    ELSE { Append(q, x) : q \in SeqsOf(S, n - 1), x \in S }

RangeIndex(n) == [k \in 1..n |-> k - 1]

\* A DataFrame: one index shared by all columns, every column as long as it.
Frame(index, cols) == [index |-> index, cols |-> cols]

GeneratedTables ==
    UNION { UNION { { Frame(RangeIndex(n), f) : f \in [present -> SeqsOf(Cells, n)] } :
                    present \in SUBSET Names } :
            n \in 0..MaxRows }

\* rows [(0, 25), (1, -5), (2, "x"), (3, 150)] of column age
ExampleTable ==
    Frame(RangeIndex(4),
          [n \in {"age"} |-> << IntV(25), IntV(-5), StrV("x"), IntV(150) >>])

\* two rows with the same label and the same wrong value
RepeatedRowTable ==
    Frame(<<0, 0>>, [n \in {"age"} |-> << IntV(-5), IntV(-5) >>])

CleanTable ==
    Frame(RangeIndex(2),
          [n \in Names |-> IF n = "age" THEN << IntV(25), IntV(25) >>
                           ELSE << StrV("x"), StrV("x") >>])

OutOfRangeTable ==
    Frame(RangeIndex(2), [n \in {"age"} |-> << IntV(-5), IntV(150) >>])

Tables == GeneratedTables \cup {ExampleTable, RepeatedRowTable, OutOfRangeTable}

SmallTables == {ExampleTable, RepeatedRowTable, CleanTable, OutOfRangeTable}

Pool == IF harness = "single" THEN Tables ELSE SmallTables

CallLimit(p) ==
    IF harness = "concurrent" THEN 1
    ELSE IF p # 1 THEN 0
    ELSE IF harness = "sequential" THEN MaxCalls
    ELSE 1

\* df.columns
ColumnsOf(t) == DOMAIN t.cols

\* df[name].items(): (index label, value) pairs in row order
Series(t, name) ==
    [k \in 1..Len(t.index) |-> [idx |-> t.index[k], value |-> t.cols[name][k]]]

-----------------------------------------------------------------------------
(* Messages *)

MissingMsg(name) == "Missing column: " \o name

Where(cell) ==
    " (row " \o ToString(cell.idx) \o ", value=" \o Format(cell.value) \o ")"

WrongTypeMsg(name, cell) == "Column '" \o name \o "' has wrong type" \o Where(cell)

BelowMinMsg(name, m, cell) ==
    "Column '" \o name \o "' below min " \o Format(m) \o Where(cell)

AboveMaxMsg(name, m, cell) ==
    "Column '" \o name \o "' above max " \o Format(m) \o Where(cell)

InvalidValueMsg(name, cell) == "Column '" \o name \o "' has invalid value" \o Where(cell)

\* for idx, value in invalid.items(): one message per selected cell, in order
WrongTypeMsgs(name, invalid) ==
    [k \in 1..Len(invalid) |-> WrongTypeMsg(name, invalid[k])]

BelowMinMsgs(name, m, invalid) ==
    [k \in 1..Len(invalid) |-> BelowMinMsg(name, m, invalid[k])]

AboveMaxMsgs(name, m, invalid) ==
    [k \in 1..Len(invalid) |-> AboveMaxMsg(name, m, invalid[k])]

InvalidValueMsgs(name, invalid) ==
    [k \in 1..Len(invalid) |-> InvalidValueMsg(name, invalid[k])]

RECURSIVE Join(_, _)
\* sep.join(msgs)
Join(msgs, sep) ==
    IF Len(msgs) = 0 THEN ""
    ELSE IF Len(msgs) = 1 THEN msgs[1]
    ELSE msgs[1] \o sep \o Join(Tail(msgs), sep)

\* ContractError(errors): keeps the list and joins it into the message.
ContractError(errs) ==
    [kind |-> "ContractError", errors |-> errs, message |-> Join(errs, "\n")]

TypeError == [kind |-> "TypeError", errors |-> <<>>, message |-> ""]

Returned == [kind |-> "returned", errors |-> <<>>, message |-> ""]

NoResult == [kind |-> "none", errors |-> <<>>, message |-> ""]

-----------------------------------------------------------------------------
(* The checks of one column *)

\* series[~series.map(lambda x: isinstance(x, col.dtype))]
WrongType(series, col) ==
    SelectSeq(series, LAMBDA c : ~IsInstance(c.value, col.dtype))

MinIsSet(col) == col.min.t # "none"

MaxIsSet(col) == col.max.t # "none"

AllowedIsSet(col) == col.allowed.given

\* series < col.min and series > col.max raise TypeError when a cell cannot
\* be ordered against the bound.
Unorderable(series, m) ==
    \E k \in 1..Len(series) : ~Orderable(series[k].value, m)

\* series[series < col.min]
BelowMin(series, col) == SelectSeq(series, LAMBDA c : Less(c.value, col.min))

\* series[series > col.max]
AboveMax(series, col) == SelectSeq(series, LAMBDA c : Greater(c.value, col.max))

\* series[~series.isin(col.allowed)]
NotAllowed(series, col) ==
    SelectSeq(series, LAMBDA c : c.value \notin col.allowed.vals)

-----------------------------------------------------------------------------
(* validate, one step per check *)

Rule(p) == schema[i[p]]

\* The for loop moves to the next item, or leaves the loop.
Advance(p) ==
    /\ i' = [i EXCEPT ![p] = @ + 1]
    /\ pc' = [pc EXCEPT ![p] = IF i[p] < Len(schema) THEN "exist" ELSE "finish"]

\* Variant: errors.insert(0, ...), newest records first.
ExtendFront(p, msgs) == [errors EXCEPT ![p] = msgs \o @]

\* Variant: `errors` is one list shared by every call (a class attribute).
ExtendShared(p, msgs) == [q \in Procs |-> errors[q] \o msgs]

\* errors.append(...) for each message, on the list of this call.
Extend(p, msgs) == [errors EXCEPT ![p] = @ \o msgs]

\* An exception other than ContractError leaves validate.
Raise(p, exc) ==
    /\ pc' = [pc EXCEPT ![p] = "done"]
    /\ result' = [result EXCEPT ![p] = exc]
    /\ history' = Append(history, [df |-> df[p], result |-> exc])

\* Variant: the list survives from the previous call.
StaleErrors(p) == errors

\* errors = []: every call starts from an empty list of its own.
FreshErrors(p) == [errors EXCEPT ![p] = <<>>]

Call(p) ==
    /\ pc[p] \in {"idle", "done"}
    /\ calls[p] < CallLimit(p)
    /\ \E t \in Pool : df' = [df EXCEPT ![p] = t]
    /\ calls' = [calls EXCEPT ![p] = @ + 1]
    /\ errors' = FreshErrors(p)
    /\ i' = [i EXCEPT ![p] = 1]
    /\ result' = [result EXCEPT ![p] = NoResult]
    /\ pc' = [pc EXCEPT ![p] = IF Len(schema) = 0 THEN "finish" ELSE "exist"]
    /\ UNCHANGED <<harness, schema, history>>

\* Variant: `break` in place of `continue` after a missing column.
ExistenceBreaks(p) ==
    /\ pc[p] = "exist"
    /\ IF Rule(p).name \notin ColumnsOf(df[p])
       THEN /\ errors' = Extend(p, << MissingMsg(Rule(p).name) >>)
            /\ pc' = [pc EXCEPT ![p] = "finish"]
            /\ UNCHANGED i
       ELSE /\ pc' = [pc EXCEPT ![p] = "type"]
            /\ UNCHANGED <<errors, i>>
    /\ UNCHANGED <<harness, schema, df, result, calls, history>>

Existence(p) ==
    /\ pc[p] = "exist"
    /\ IF Rule(p).name \notin ColumnsOf(df[p])
       THEN /\ errors' = Extend(p, << MissingMsg(Rule(p).name) >>)
            /\ Advance(p)
       ELSE /\ pc' = [pc EXCEPT ![p] = "type"]
            /\ UNCHANGED <<errors, i>>
    /\ UNCHANGED <<harness, schema, df, result, calls, history>>

\* Variant: the rows of wrong type are dropped from the caller's table.
TypeCheckInPlace(p) ==
    /\ pc[p] = "type"
    /\ LET name == Rule(p).name
           series == Series(df[p], name)
           invalid == WrongType(series, Rule(p).col)
           keep == { k \in 1..Len(series) : IsInstance(series[k].value, Rule(p).col.dtype) }
           Kept(q) == SelectSeq([k \in 1..Len(q) |-> <<k, q[k]>>], LAMBDA x : x[1] \in keep)
           Vals(q) == [k \in 1..Len(Kept(q)) |-> Kept(q)[k][2]]
       IN  /\ errors' = Extend(p, WrongTypeMsgs(name, invalid))
           /\ df' = [df EXCEPT ![p] =
                       Frame(Vals(df[p].index),
                             [n \in ColumnsOf(df[p]) |-> Vals(df[p].cols[n])])]
    /\ pc' = [pc EXCEPT ![p] = "min"]
    /\ UNCHANGED <<harness, schema, i, result, calls, history>>

TypeCheck(p) ==
    /\ pc[p] = "type"
    /\ LET name == Rule(p).name
           invalid == WrongType(Series(df[p], name), Rule(p).col)
       IN  errors' = Extend(p, WrongTypeMsgs(name, invalid))
    /\ pc' = [pc EXCEPT ![p] = "min"]
    /\ UNCHANGED <<harness, schema, df, i, result, calls, history>>

MinCheck(p) ==
    /\ pc[p] = "min"
    /\ LET name == Rule(p).name
           col == Rule(p).col
           series == Series(df[p], name)
       IN  IF ~MinIsSet(col)
           THEN /\ pc' = [pc EXCEPT ![p] = "max"]
                /\ UNCHANGED <<errors, result, history>>
           ELSE IF Unorderable(series, col.min)
           THEN /\ Raise(p, TypeError)
                /\ UNCHANGED errors
           ELSE /\ errors' = Extend(p, BelowMinMsgs(name, col.min, BelowMin(series, col)))
                /\ pc' = [pc EXCEPT ![p] = "max"]
                /\ UNCHANGED <<result, history>>
    /\ UNCHANGED <<harness, schema, df, i, calls>>

MaxCheck(p) ==
    /\ pc[p] = "max"
    /\ LET name == Rule(p).name
           col == Rule(p).col
           series == Series(df[p], name)
       IN  IF ~MaxIsSet(col)
           THEN /\ pc' = [pc EXCEPT ![p] = "allowed"]
                /\ UNCHANGED <<errors, result, history>>
           ELSE IF Unorderable(series, col.max)
           THEN /\ Raise(p, TypeError)
                /\ UNCHANGED errors
           ELSE /\ errors' = Extend(p, AboveMaxMsgs(name, col.max, AboveMax(series, col)))
                /\ pc' = [pc EXCEPT ![p] = "allowed"]
                /\ UNCHANGED <<result, history>>
    /\ UNCHANGED <<harness, schema, df, i, calls>>

AllowedCheck(p) ==
    /\ pc[p] = "allowed"
    /\ LET name == Rule(p).name
           col == Rule(p).col
           series == Series(df[p], name)
       IN  IF AllowedIsSet(col)
           THEN errors' = Extend(p, InvalidValueMsgs(name, NotAllowed(series, col)))
           ELSE UNCHANGED errors
    /\ Advance(p)
    /\ UNCHANGED <<harness, schema, df, result, calls, history>>

\* if errors: raise ContractError(errors); otherwise validate returns None.
Outcome(errs) == IF Len(errs) # 0 THEN ContractError(errs) ELSE Returned

Finish(p) ==
    /\ pc[p] = "finish"
    /\ Raise(p, Outcome(errors[p]))
    /\ UNCHANGED <<harness, schema, df, i, errors, calls>>

RECURSIVE ValidateFrom(_, _, _, _)
\* The loop of validate from item c on, run without interruption.
ValidateFrom(sch, t, c, errs) ==
    IF c > Len(sch) THEN Outcome(errs)
    ELSE LET name == sch[c].name
             col == sch[c].col
         IN  IF name \notin ColumnsOf(t)
             THEN ValidateFrom(sch, t, c + 1, Append(errs, MissingMsg(name)))
             ELSE LET series == Series(t, name)
                      e1 == errs \o WrongTypeMsgs(name, WrongType(series, col))
                  IN  IF MinIsSet(col) /\ Unorderable(series, col.min) THEN TypeError
                      ELSE IF MaxIsSet(col) /\ Unorderable(series, col.max) THEN TypeError
                      ELSE LET e2 == IF MinIsSet(col)
                                     THEN e1 \o BelowMinMsgs(name, col.min, BelowMin(series, col))
                                     ELSE e1
                               e3 == IF MaxIsSet(col)
                                     THEN e2 \o AboveMaxMsgs(name, col.max, AboveMax(series, col))
                                     ELSE e2
                               e4 == IF AllowedIsSet(col)
                                     THEN e3 \o InvalidValueMsgs(name, NotAllowed(series, col))
                                     ELSE e3
                           IN  ValidateFrom(sch, t, c + 1, e4)

\* Contract.validate(df) as one uninterrupted call.
Validate(sch, t) == ValidateFrom(sch, t, 1, <<>>)

Step(p) ==
    \/ Call(p)
    \/ Existence(p)
    \/ TypeCheck(p)
    \/ MinCheck(p)
    \/ MaxCheck(p)
    \/ AllowedCheck(p)
    \/ Finish(p)

Next == \E p \in Procs : Step(p)

Start(h) ==
    /\ harness = h
    /\ schema \in Schemas
    /\ pc = [p \in Procs |-> "idle"]
    /\ df = [p \in Procs |-> Frame(<<>>, <<>>)]
    /\ i = [p \in Procs |-> 1]
    /\ errors = [p \in Procs |-> <<>>]
    /\ result = [p \in Procs |-> NoResult]
    /\ calls = [p \in Procs |-> 0]
    /\ history = <<>>

Init == Start("single")

InitSequential == Start("sequential")

InitConcurrent == Start("concurrent")

\* One validate call on any table.
Spec == Init /\ [][Next]_vars

\* One caller validating table after table against the same schema.
SpecSequential == InitSequential /\ [][Next]_vars

\* Two callers validating their own tables against the same schema.
SpecConcurrent == InitConcurrent /\ [][Next]_vars

-----------------------------------------------------------------------------
(* What a table's violations are, stated cell by cell *)

Rows(t) == 1..Len(t.index)

CellAt(t, name, r) == [idx |-> t.index[r], value |-> t.cols[name][r]]

\* Check kinds in their fixed order.
KindMissing == "0-existence"
KindType == "1-type"
KindMin == "2-min"
KindMax == "3-max"
KindAllowed == "4-allowed"

KindRank(k) ==
    CASE k = KindMissing -> 0
      [] k = KindType -> 1
      [] k = KindMin -> 2
      [] k = KindMax -> 3
      [] k = KindAllowed -> 4

CellKinds == {KindType, KindMin, KindMax, KindAllowed}

\* Cell r of a present column fails check k of its rule.
Fails(col, k, v) ==
    CASE k = KindType -> v.t # col.dtype
      [] k = KindMin -> col.min.t # "none" /\ v.t = col.min.t /\ v.i < col.min.i
      [] k = KindMax -> col.max.t # "none" /\ v.t = col.max.t /\ v.i > col.max.i
      [] k = KindAllowed -> col.allowed.given /\ v \notin col.allowed.vals

\* Every violation of table t against schema sch: (rule, check, row).
Violations(sch, t) ==
    { [c |-> c, k |-> KindMissing, r |-> 0] :
        c \in { c \in 1..Len(sch) : sch[c].name \notin DOMAIN t.cols } }
    \cup
    { x \in [c : 1..Len(sch), k : CellKinds, r : Rows(t)] :
        /\ sch[x.c].name \in DOMAIN t.cols
        /\ Fails(sch[x.c].col, x.k, t.cols[sch[x.c].name][x.r]) }

\* (rule, check, row) order
Before(a, b) ==
    \/ a.c < b.c
    \/ a.c = b.c /\ KindRank(a.k) < KindRank(b.k)
    \/ a.c = b.c /\ a.k = b.k /\ a.r < b.r

RECURSIVE InOrder(_)
InOrder(S) ==
    IF S = {} THEN <<>>
    ELSE LET first == CHOOSE a \in S : \A b \in S \ {a} : Before(a, b)
         IN  <<first>> \o InOrder(S \ {first})

MessageOf(sch, t, x) ==
    LET name == sch[x.c].name
        col == sch[x.c].col
    IN  CASE x.k = KindMissing -> MissingMsg(name)
          [] x.k = KindType -> WrongTypeMsg(name, CellAt(t, name, x.r))
          [] x.k = KindMin -> BelowMinMsg(name, col.min, CellAt(t, name, x.r))
          [] x.k = KindMax -> AboveMaxMsg(name, col.max, CellAt(t, name, x.r))
          [] x.k = KindAllowed -> InvalidValueMsg(name, CellAt(t, name, x.r))

\* Every cell a message can speak of, and every bound it can name.
AnyCell ==
    { [idx |-> n, value |-> v] : n \in 0..(MaxRows + 2), v \in Cells \cup {IntV(150)} }

AnyBound == { NoneV, IntV(0), IntV(120) }

\* Every message of kind k about column name.
MessagesOf(name, k) ==
    CASE k = KindMissing -> { MissingMsg(name) }
      [] k = KindType -> { WrongTypeMsg(name, c) : c \in AnyCell }
      [] k = KindMin -> { BelowMinMsg(name, m, c) : m \in AnyBound, c \in AnyCell }
      [] k = KindMax -> { AboveMaxMsg(name, m, c) : m \in AnyBound, c \in AnyCell }
      [] k = KindAllowed -> { InvalidValueMsg(name, c) : c \in AnyCell }

\* Number of entries of msgs that lie in S.
Count(msgs, S) == Cardinality({ n \in DOMAIN msgs : msgs[n] \in S })

Done(p) == pc[p] = "done"

-----------------------------------------------------------------------------
(* Claims *)

\* C1: validate never raises mid-evaluation: every call ends by returning
\* or by raising ContractError; no other exception escapes.
C1_NeverRaisesMidEvaluation ==
    \A p \in Procs : Done(p) => result[p].kind \in {"returned", "ContractError"}

C3_CleanTableSucceeds ==
    \A p \in Procs :
        (Done(p) /\ Violations(schema, df[p]) = {})
        => (result[p].kind = "returned" /\ errors[p] = <<>>)

\* C4: the records a ContractError carries are in (rule, check, row) order:
\* they are the table's violations listed by declaration order of the
\* column, then existence, type, min, max, allowed, then row order.
C4_EmissionOrder ==
    \A p \in Procs :
        result[p].kind = "ContractError"
        => LET listed == InOrder(Violations(schema, df[p]))
           IN  result[p].errors =
                 [n \in 1..Len(listed) |-> MessageOf(schema, df[p], listed[n])]

C4_Witness ==
    \E p \in Procs :
        /\ result[p].kind = "ContractError"
        /\ Len(schema) = 2
        /\ \E a, b, c, d \in Violations(schema, df[p]) :
             /\ a.c = 1 /\ b.c = 2
             /\ c.c = d.c /\ c.k # d.k
             /\ \E e \in Violations(schema, df[p]) : e.c = c.c /\ e.k = c.k /\ e.r # c.r

\* C5: for every present column and check kind, the records of that kind
\* correspond one to one to the cells failing the check; an absent
\* constraint gives none, a set one (0 and the empty set included) is applied.
C5_OneRecordPerOffendingCell ==
    \A p \in Procs :
        Done(p)
        => \A c \in 1..Len(schema) : \A k \in CellKinds :
             schema[c].name \in ColumnsOf(df[p])
             => Count(errors[p], MessagesOf(schema[c].name, k))
                = Cardinality({ x \in Violations(schema, df[p]) : x.c = c /\ x.k = k })

\* C6: type and range checks are independent; for {age: Column(int, min=0,
\* max=120)} and rows [(0,25),(1,-5),(2,"x"),(3,150)] validate fails with
\* exactly: wrong type at row 2, below min at row 1, above max at row 3.
C6_ExampleRecords ==
    \A p \in Procs :
        (Done(p) /\ schema = ExampleSchema /\ df[p] = ExampleTable)
        => /\ result[p].kind = "ContractError"
           /\ result[p].errors =
                << "Column 'age' has wrong type (row 2, value=x)",
                   "Column 'age' below min 0 (row 1, value=-5)",
                   "Column 'age' above max 120 (row 3, value=150)" >>

\* C7: whenever a record was produced the call fails with one ContractError
\* carrying the whole list, nothing dropped or merged, and its message is
\* the records joined by newlines.
C7_AllRecordsCarried ==
    \A p \in Procs :
        (Done(p) /\ Len(errors[p]) > 0)
        => /\ result[p].kind = "ContractError"
           /\ result[p].errors = errors[p]
           /\ Len(result[p].errors) = Cardinality(Violations(schema, df[p]))
           /\ result[p].message = Join(errors[p], "\n")

\* C8: the outcome of a call depends only on the schema and the table: any
\* two finished calls on the same table ended the same way, with the same
\* record sequence, whatever calls came between.
C8_Idempotent ==
    \A a, b \in DOMAIN history :
        history[a].df = history[b].df => history[a].result = history[b].result

C8_Witness ==
    /\ Len(history) = 3
    /\ history[1].df = history[3].df
    /\ history[2].df # history[1].df
    /\ history[1].result.kind = "ContractError"
    /\ history[2].result.kind = "ContractError"
    /\ history[3].result.kind = "ContractError"

\* C9: validate is read-only: no step of a running call changes the table
\* it was given or the schema.
C9_ReadOnly ==
    [][\A p \in Procs :
          pc[p] \notin {"idle", "done"} => (df'[p] = df[p] /\ schema' = schema)]_vars

C9_Witness ==
    \E p \in Procs :
        /\ Done(p)
        /\ result[p].kind = "ContractError"
        /\ Len(df[p].index) = 2
        /\ Len(result[p].errors) >= 2

\* C10: concurrent calls on one schema do not interfere: each call ends
\* exactly as it would when run alone on its table.
C10_NoInterference ==
    \A p \in Procs : Done(p) => result[p] = Validate(schema, df[p])

C10_Witness ==
    /\ \A p \in Procs : Done(p) /\ result[p].kind = "ContractError"
    /\ df[1] # df[2]
    /\ result[1] # result[2]

====
